---- MODULE Spec2Model ----
(***************************************************************************)
(* Model of the traefik-webfinger middleware (src/webfinger.go): the       *)
(* constructor New, the request handler WebFinger.ServeHTTP and the        *)
(* resource classifier isResourceForDomain.                                *)
(*                                                                         *)
(* Identifiers, domains and request paths are sequences of one-character   *)
(* strings, so that the prefix, split and substring tests of the Go code   *)
(* are computed and not assumed.  Descriptor fields that the code only     *)
(* compares with "" or copies are TLA+ strings.                            *)
(***************************************************************************)
EXTENDS Integers, Sequences, FiniteSets, TLC

VARIABLES
    config,     \* the *Config handed to New
    next,       \* the next http.Handler handed to New
    handler,    \* the *WebFinger New returned, or NoHandler
    err,        \* the error New returned, or NoError
    last,       \* what the latest ServeHTTP call did, or NoCall
    cresource,  \* isResourceForDomain alone: the resource argument
    cdomain,    \* isResourceForDomain alone: the domain argument
    cresult,    \* isResourceForDomain alone: the value returned, or "pending"
    inflight    \* concurrent serving: for each goroutine, where its ServeHTTP call is

vars == <<config, next, handler, err, last, cresource, cdomain, cresult, inflight>>

(***************************************************************************)
(* Bounds of the model.                                                    *)
(***************************************************************************)
MaxTail == 2        \* characters after the scheme prefix of a request's resource
MaxResources == 2   \* entries of a configured resources table
MaxClassTail == 5   \* characters after the scheme prefix, classifier alone
MaxClassDomain == 2 \* characters of the domain, classifier alone
NumGoroutines == 2  \* requests the server handles at the same time

(***************************************************************************)
(* Strings as sequences of characters.                                     *)
(***************************************************************************)
Alphabet == {"u", "@", "d"}

RECURSIVE Strings(_)
Strings(n) ==
    IF n = 0 THEN {<<>>}
    ELSE LET shorter == Strings(n - 1)
         IN  shorter \cup {Append(s, c) : s \in shorter, c \in Alphabet}

\* strings.HasPrefix
HasPrefix(s, prefix) ==
    /\ Len(s) >= Len(prefix)
    /\ SubSeq(s, 1, Len(prefix)) = prefix

\* strings.Contains
ContainsAtStart(s, substr) ==
    /\ Len(s) >= Len(substr)
    /\ SubSeq(s, 1, Len(substr)) = substr

Contains(s, substr) ==
    \E i \in 0..(Len(s) - Len(substr)) : SubSeq(s, i + 1, i + Len(substr)) = substr

\* s[n:]
SliceFrom(s, n) == SubSeq(s, n + 1, Len(s))

\* strings.SplitN(s, sep, 2) for a one-character sep: cut at the first sep
SplitN2Last(s, sep) ==
    IF \E i \in 1..Len(s) : s[i] = sep
    THEN LET i == CHOOSE k \in 1..Len(s) :
                      s[k] = sep /\ \A j \in (k + 1)..Len(s) : s[j] # sep
         IN  <<SubSeq(s, 1, i - 1), SubSeq(s, i + 1, Len(s))>>
    ELSE <<s>>

SplitN2(s, sep) ==
    IF \E i \in 1..Len(s) : s[i] = sep
    THEN LET i == CHOOSE k \in 1..Len(s) :
                      s[k] = sep /\ \A j \in 1..(k - 1) : s[j] # sep
         IN  <<SubSeq(s, 1, i - 1), SubSeq(s, i + 1, Len(s))>>
    ELSE <<s>>

acctPrefix == <<"a", "c", "c", "t", ":">>
httpsPrefix == <<"h", "t", "t", "p", "s", ":", "/", "/">>
mailtoPrefix == <<"m", "a", "i", "l", "t", "o", ":">>

(***************************************************************************)
(* isResourceForDomain (src/webfinger.go:121-141).                         *)
(***************************************************************************)
isResourceForDomain(resource, domain) ==
    IF HasPrefix(resource, acctPrefix)
    THEN LET parts == SplitN2(SliceFrom(resource, 5), "@")
         IN  Len(parts) = 2 /\ parts[2] = domain
    ELSE IF HasPrefix(resource, httpsPrefix)
    THEN Contains(SliceFrom(resource, 8), domain)
    ELSE IF HasPrefix(resource, mailtoPrefix)
    THEN LET parts == SplitN2(SliceFrom(resource, 7), "@")
         IN  Len(parts) = 2 /\ parts[2] = domain
    ELSE Contains(resource, domain)

\* normalizeResource (src/webfinger.go:144-149) returns its argument
normalizeResourceDropScheme(resource) ==
    IF HasPrefix(resource, acctPrefix) THEN SliceFrom(resource, 5) ELSE resource

normalizeResource(resource) == resource

(***************************************************************************)
(* Configuration values (src/webfinger.go:13-36).  A Go map is a TLA+      *)
(* function; an empty map or slice is <<>>.                                *)
(***************************************************************************)
NoTitles == <<>>

LinkProfile ==
    [Rel |-> "http://webfinger.net/rel/profile-page", Type |-> "text/html",
     Href |-> "https://example.com/alice", Titles |-> ("en" :> "Alice"),
     Properties |-> NoTitles]

LinkSelf ==
    [Rel |-> "self", Type |-> "application/activity+json",
     Href |-> "https://example.com/users/alice", Titles |-> NoTitles,
     Properties |-> NoTitles]

LinkNoRel ==
    [Rel |-> "", Type |-> "", Href |-> "https://example.com/user",
     Titles |-> NoTitles, Properties |-> NoTitles]

DescAlice ==
    [Subject |-> "acct:alice@example.com",
     Aliases |-> <<"https://example.com/alice", "https://example.com/users/alice">>,
     Links |-> <<LinkProfile, LinkSelf>>]

DescBare == [Subject |-> "acct:user@example.com", Aliases |-> <<>>, Links |-> <<>>]

DescNoSubject == [Subject |-> "", Aliases |-> <<>>, Links |-> <<LinkSelf>>]

DescNoRel ==
    [Subject |-> "acct:user@example.com", Aliases |-> <<>>,
     Links |-> <<LinkSelf, LinkNoRel>>]

Descriptors == {DescAlice, DescBare, DescNoSubject, DescNoRel}

\* keys a resources table may have: the first and the last belong to
\* domain <<"d">>, the second does not
Keys ==
    { acctPrefix \o <<"@", "d">>, acctPrefix \o <<"@", "u">>, httpsPrefix \o <<"d">> }

Tables ==
    UNION { [K -> Descriptors] : K \in { S \in SUBSET Keys : Cardinality(S) <= MaxResources } }

Domains == { <<>>, <<"d">> }

Configs == [Domain : Domains, Resources : Tables, Passthrough : BOOLEAN]

(***************************************************************************)
(* Requests: URL path, method and the parsed query (url.Values as the      *)
(* sequence of its key/value pairs in request order).                      *)
(***************************************************************************)
wellKnown ==
    <<"/", ".", "w", "e", "l", "l", "-", "k", "n", "o", "w", "n", "/",
      "w", "e", "b", "f", "i", "n", "g", "e", "r">>

Paths ==
    { wellKnown,
      wellKnown \o <<"/", "x">>,
      SubSeq(wellKnown, 1, Len(wellKnown) - 1),
      <<"/", "x">> \o wellKnown }

Methods == {"GET", "POST", "HEAD"}

Schemes == {acctPrefix, httpsPrefix, mailtoPrefix, <<>>}

Resources == { p \o t : p \in Schemes, t \in Strings(MaxTail) }

Param(k, v) == [key |-> k, value |-> v]

Queries ==
    {<<>>}
    \cup { <<Param("resource", r)>> : r \in Resources }
    \cup { <<Param("rel", r)>> : r \in Keys }
    \cup { <<Param("rel", <<"d">>), Param("resource", r)>> : r \in Keys \cup {<<>>} }
    \cup { <<Param("resource", <<>>), Param("resource", r)>> : r \in Keys }

Requests == [Path : Paths, Method : Methods, Query : Queries]

\* req.URL.Query().Get(key): the first value of key, "" when there is none
QueryGetAny(query, key) ==
    IF Len(query) > 0 THEN query[1].value ELSE <<>>

QueryGet(query, key) ==
    IF \E i \in 1..Len(query) : query[i].key = key
    THEN query[CHOOSE i \in 1..Len(query) :
                   query[i].key = key /\ \A j \in 1..(i - 1) : query[j].key # key].value
    ELSE <<>>

(***************************************************************************)
(* http.ResponseWriter: the live header map, the status and the headers    *)
(* sent with it (fixed by the first WriteHeader or Write), and the body    *)
(* as the sequence of chunks written.  status 0: nothing written yet.      *)
(***************************************************************************)
StatusOK == 200
StatusBadRequest == 400
StatusNotFound == 404
StatusMethodNotAllowed == 405
StatusInternalServerError == 500
StatusTeapot == 418

NewRecorder == [status |-> 0, header |-> <<>>, sent |-> <<>>, body |-> <<>>]

HeaderSet(rw, k, v) == [rw EXCEPT !.header = (k :> v) @@ rw.header]

HeaderDel(rw, k) ==
    [rw EXCEPT !.header = [x \in (DOMAIN rw.header) \ {k} |-> rw.header[x]]]

HeaderGet(h, k) == IF k \in DOMAIN h THEN h[k] ELSE ""

WriteHeader(rw, code) ==
    IF rw.status # 0 THEN rw
    ELSE [rw EXCEPT !.status = code, !.sent = rw.header]

Write(rw, chunk) ==
    [WriteHeader(rw, StatusOK) EXCEPT !.body = Append(@, chunk)]

\* http.Error as called at src/webfinger.go:81, 88, 94, 105, 117
httpError(rw, msg, code) ==
    LET h1 == HeaderDel(rw, "Content-Length")
        h2 == HeaderSet(h1, "Content-Type", "text/plain; charset=utf-8")
        h3 == HeaderSet(h2, "X-Content-Type-Options", "nosniff")
    IN  Write(WriteHeader(h3, code), [text |-> msg])

(***************************************************************************)
(* encoding/json on WebFingerResponse (src/webfinger.go:13-26): a JSON     *)
(* object is the sequence of its members in struct-field order; members    *)
(* tagged omitempty are left out when empty.                               *)
(***************************************************************************)
Member(n, v) == [name |-> n, val |-> v]

OmitEmptyString(n, v) == IF v = "" THEN <<>> ELSE <<Member(n, v)>>

OmitEmptyMap(n, m) == IF DOMAIN m = {} THEN <<>> ELSE <<Member(n, m)>>

EncodeLink(link) ==
    <<Member("rel", link.Rel)>>
    \o OmitEmptyString("type", link.Type)
    \o OmitEmptyString("href", link.Href)
    \o OmitEmptyMap("titles", link.Titles)
    \o OmitEmptyMap("properties", link.Properties)

Encode(response) ==
    <<Member("subject", response.Subject)>>
    \o (IF Len(response.Aliases) = 0 THEN <<>>
        ELSE <<Member("aliases", response.Aliases)>>)
    \o (IF Len(response.Links) = 0 THEN <<>>
        ELSE <<Member("links",
                      [i \in 1..Len(response.Links) |-> EncodeLink(response.Links[i])])>>)

\* json.Decoder.Decode into a zero value, as the tests read the body back
\* (src/webfinger_test.go:193-195): an absent member leaves the zero value
HasMember(obj, n) == \E i \in 1..Len(obj) : obj[i].name = n

MemberOf(obj, n) == obj[CHOOSE i \in 1..Len(obj) : obj[i].name = n].val

DecodeLink(obj) ==
    [Rel |-> IF HasMember(obj, "rel") THEN MemberOf(obj, "rel") ELSE "",
     Type |-> IF HasMember(obj, "type") THEN MemberOf(obj, "type") ELSE "",
     Href |-> IF HasMember(obj, "href") THEN MemberOf(obj, "href") ELSE "",
     Titles |-> IF HasMember(obj, "titles") THEN MemberOf(obj, "titles") ELSE <<>>,
     Properties |-> IF HasMember(obj, "properties")
                    THEN MemberOf(obj, "properties") ELSE <<>>]

Decode(obj) ==
    [Subject |-> IF HasMember(obj, "subject") THEN MemberOf(obj, "subject") ELSE "",
     Aliases |-> IF HasMember(obj, "aliases") THEN MemberOf(obj, "aliases") ELSE <<>>,
     Links |-> IF HasMember(obj, "links")
               THEN LET ls == MemberOf(obj, "links")
                    IN  [i \in 1..Len(ls) |-> DecodeLink(ls[i])]
               ELSE <<>>]

(***************************************************************************)
(* The next handlers of the tests: the teapot of TestWebFinger             *)
(* (src/webfinger_test.go:176-178) and the backend of TestPassthrough      *)
(* (src/webfinger_test.go:249-254).                                        *)
(***************************************************************************)
NextHandlers == {"teapot", "backend"}

NextServeHTTP(kind, rw, req) ==
    IF kind = "teapot" THEN WriteHeader(rw, StatusTeapot)
    ELSE Write(HeaderSet(WriteHeader(rw, StatusOK), "Content-Type", "application/json"),
               [text |-> "{\"message\":\"backend response\"}"])

(***************************************************************************)
(* New (src/webfinger.go:57-69).                                           *)
(***************************************************************************)
NoHandler == [ok |-> FALSE]
NoError == "nil"

NewAcceptsAll(cfg, nxt) ==
    [handler |-> [ok |-> TRUE, next |-> nxt, domain |-> cfg.Domain,
                  resources |-> cfg.Resources, passthrough |-> cfg.Passthrough],
     err |-> NoError]

New(cfg, nxt) ==
    IF cfg.Domain = <<>>
    THEN [handler |-> NoHandler, err |-> "domain must be specified"]
    ELSE [handler |-> [ok |-> TRUE, next |-> nxt, domain |-> cfg.Domain,
                       resources |-> cfg.Resources, passthrough |-> cfg.Passthrough],
          err |-> NoError]

(***************************************************************************)
(* WebFinger.ServeHTTP (src/webfinger.go:72-118).  The value is the        *)
(* response writer after the call, the requests handed to the next         *)
(* handler, and whether the JSON encoder was run and returned an error.    *)
(***************************************************************************)
Served(rw) == [rw |-> rw, forwarded |-> <<>>, encodeErr |-> FALSE]

Forward(w, rw, req) ==
    [rw |-> NextServeHTTP(w.next, rw, req), forwarded |-> <<req>>, encodeErr |-> FALSE]

\* line 74
IsWebFingerPathContains(path) == Contains(path, wellKnown)

IsWebFingerPath(path) == HasPrefix(path, wellKnown)

\* line 80
MethodAllowedWithHead(method) == method \in {"GET", "HEAD"}

MethodAllowed(method) == method = "GET"

\* lines 101-107
ServeStatic(rw, response, encodeFails) ==
    LET r1 == HeaderSet(rw, "Content-Type", "application/jrd+json")
        r2 == WriteHeader(r1, StatusOK)
    IN  IF encodeFails
        THEN [rw |-> httpError(r2, "Error encoding response", StatusInternalServerError),
              forwarded |-> <<>>, encodeErr |-> TRUE]
        ELSE Served(Write(r2, [json |-> Encode(response)]))

\* lines 110-117
UnmatchedAlwaysNotFound(w, rw, req) ==
    Served(httpError(rw, "Resource not found", StatusNotFound))

UnmatchedMissingReturn(w, rw, req) ==
    IF w.passthrough
    THEN [rw |-> httpError(NextServeHTTP(w.next, rw, req), "Resource not found",
                           StatusNotFound),
          forwarded |-> <<req>>, encodeErr |-> FALSE]
    ELSE Served(httpError(rw, "Resource not found", StatusNotFound))

Unmatched(w, rw, req) ==
    IF w.passthrough THEN Forward(w, rw, req)
    ELSE Served(httpError(rw, "Resource not found", StatusNotFound))

ServeHTTP(w, rw, req, encodeFails) ==
    IF ~IsWebFingerPath(req.Path) THEN Forward(w, rw, req)
    ELSE IF ~MethodAllowed(req.Method)
    THEN Served(httpError(rw, "Method not allowed", StatusMethodNotAllowed))
    ELSE LET resource == QueryGet(req.Query, "resource")
         IN  IF resource = <<>>
             THEN Served(httpError(rw, "Resource parameter is required", StatusBadRequest))
             ELSE IF ~isResourceForDomain(resource, w.domain)
             THEN Served(httpError(rw, "Resource not found", StatusNotFound))
             ELSE LET normalizedResource == normalizeResource(resource)
                  IN  IF normalizedResource \in DOMAIN w.resources
                      THEN ServeStatic(rw, w.resources[normalizedResource], encodeFails)
                      ELSE Unmatched(w, rw, req)

(***************************************************************************)
(* The middleware as a state machine: the host builds one handler from a   *)
(* configuration, then serves requests with it.                            *)
(***************************************************************************)
NoCall == [called |-> FALSE]

Goroutines == 1..NumGoroutines

Idle == [pc |-> "idle"]

NoneInFlight == [g \in Goroutines |-> Idle]

Init ==
    /\ config \in Configs
    /\ next \in NextHandlers
    /\ handler = NoHandler
    /\ err = "unset"
    /\ last = NoCall
    /\ cresource = <<>>
    /\ cdomain = <<>>
    /\ cresult = "idle"
    /\ inflight = NoneInFlight

Construct ==
    /\ err = "unset"
    /\ LET r == New(config, next)
       IN  /\ handler' = r.handler
           /\ err' = r.err
    /\ UNCHANGED <<config, next, last, cresource, cdomain, cresult, inflight>>

Serve ==
    /\ handler.ok
    /\ ~last.called
    /\ \E req \in Requests, encodeFails \in BOOLEAN :
          LET out == ServeHTTP(handler, NewRecorder, req, encodeFails)
          IN  last' = [called |-> TRUE, req |-> req, rw |-> out.rw,
                       forwarded |-> out.forwarded, encodeErr |-> out.encodeErr]
    /\ UNCHANGED <<config, next, handler, err, cresource, cdomain, cresult, inflight>>

\* the call has returned; the handler is ready for the next request
Return ==
    /\ last.called
    /\ last' = NoCall
    /\ UNCHANGED <<config, next, handler, err, cresource, cdomain, cresult, inflight>>

Next == Construct \/ Serve \/ Return

Spec == Init /\ [][Next]_vars

(***************************************************************************)
(* The classifier alone, on every resource and domain of the bounds.       *)
(***************************************************************************)
\* a scheme the classifier does not recognise
httpPrefix == <<"h", "t", "t", "p", ":", "/", "/">>

ClassSchemes == Schemes \cup {httpPrefix}

ClassResources == { p \o t : p \in ClassSchemes, t \in Strings(MaxClassTail) }

ClassDomains == Strings(MaxClassDomain)

InitClassify ==
    /\ config = [Domain |-> <<>>, Resources |-> <<>>, Passthrough |-> FALSE]
    /\ next = "teapot"
    /\ handler = NoHandler
    /\ err = "unset"
    /\ last = NoCall
    /\ cresource \in ClassResources
    /\ cdomain \in ClassDomains
    /\ cresult = "pending"
    /\ inflight = NoneInFlight

Classify ==
    /\ cresult = "pending"
    /\ cresult' = IF isResourceForDomain(cresource, cdomain) THEN "true" ELSE "false"
    /\ UNCHANGED <<config, next, handler, err, last, cresource, cdomain, inflight>>

NextClassify == Classify

SpecClassify == InitClassify /\ [][NextClassify]_vars

(***************************************************************************)
(* Properties.  They read the request of the latest call directly (path    *)
(* prefix, method, first value of the resource parameter) and compare the  *)
(* recorded response with what the claim expects.                          *)
(***************************************************************************)
OnDiscoveryPath == HasPrefix(last.req.Path, wellKnown)

\* the values of the resource parameter, in request order
ResourceValues ==
    LET q == last.req.Query
        idx == { i \in 1..Len(q) : q[i].key = "resource" }
    IN  [n \in 1..Cardinality(idx) |->
            q[CHOOSE i \in idx : Cardinality({ j \in idx : j <= i }) = n].value]

ResourceMissing == Len(ResourceValues) = 0 \/ ResourceValues[1] = <<>>

Requested == ResourceValues[1]

GetWithResource ==
    /\ last.called
    /\ OnDiscoveryPath
    /\ last.req.Method = "GET"
    /\ ~ResourceMissing

\* the caller got exactly what the next handler answers to the original request
ForwardedVerbatim ==
    /\ last.forwarded = <<last.req>>
    /\ last.rw = NextServeHTTP(next, NewRecorder, last.req)

Rejected(code) ==
    /\ last.rw.status = code
    /\ last.forwarded = <<>>

\* C1: a GET on the discovery path for a resource of the domain that is a key
\* of the table, taken verbatim, is answered 200 with Content-Type
\* application/jrd+json and a body that decodes to the configured descriptor
\* (subject, aliases and links in configured order); the next handler is not
\* invoked, with passthrough on or off.  The encoder reporting an error is
\* the case of C13.
C1_StaticResourceServed ==
    ( /\ GetWithResource
      /\ isResourceForDomain(Requested, handler.domain)
      /\ Requested \in DOMAIN config.Resources
      /\ ~last.encodeErr )
    => /\ last.rw.status = StatusOK
       /\ HeaderGet(last.rw.sent, "Content-Type") = "application/jrd+json"
       /\ Len(last.rw.body) = 1
       /\ DOMAIN last.rw.body[1] = {"json"}
       /\ Decode(last.rw.body[1].json) = config.Resources[Requested]
       /\ last.forwarded = <<>>

C1_Witness ==
    /\ GetWithResource
    /\ config.Passthrough
    /\ Requested = acctPrefix \o <<"@", "d">>
    /\ Requested \in DOMAIN config.Resources
    /\ config.Resources[Requested] = DescAlice
    /\ last.rw.status = StatusOK
    /\ Len(last.rw.body) = 1
    /\ Len(Decode(last.rw.body[1].json).Links) = 2

\* C2: a request whose path does not start with /.well-known/webfinger is
\* handed to the next handler exactly once, unmodified, and the response is
\* exactly the next handler's, whatever the method, query or configuration.
C2_OtherPathForwarded ==
    (last.called /\ ~OnDiscoveryPath) => ForwardedVerbatim

C2_Witness ==
    /\ last.called
    /\ last.req.Path = <<"/", "x">> \o wellKnown
    /\ last.req.Method = "POST"
    /\ ~ResourceMissing
    /\ ~config.Passthrough
    /\ ForwardedVerbatim

\* C3: a request on the discovery path whose method is not GET is answered
\* 405 and never reaches the next handler, whatever the resource parameter,
\* the table and the passthrough flag.
C3_MethodNotAllowed ==
    (last.called /\ OnDiscoveryPath /\ last.req.Method # "GET")
    => Rejected(StatusMethodNotAllowed)

C3_Witness ==
    /\ last.called
    /\ OnDiscoveryPath
    /\ last.req.Method = "HEAD"
    /\ config.Passthrough
    /\ ~ResourceMissing
    /\ Requested \in DOMAIN config.Resources
    /\ Rejected(StatusMethodNotAllowed)

\* C4: a GET on the discovery path with no resource parameter, or an empty
\* one, is answered 400 and never reaches the next handler, also with
\* passthrough enabled.
C4_MissingResource ==
    (last.called /\ OnDiscoveryPath /\ last.req.Method = "GET" /\ ResourceMissing)
    => Rejected(StatusBadRequest)

C4_Witness ==
    /\ last.called
    /\ OnDiscoveryPath
    /\ last.req.Method = "GET"
    /\ Len(last.req.Query) = 1
    /\ Len(ResourceValues) = 0
    /\ config.Passthrough
    /\ Rejected(StatusBadRequest)

\* C5: a GET on the discovery path for a non-empty resource that does not
\* belong to the domain is forwarded (the caller gets the next handler's
\* response) when passthrough is enabled, and is answered 404 without
\* reaching the next handler when it is disabled.
C5_OutOfDomain ==
    (GetWithResource /\ ~isResourceForDomain(Requested, handler.domain))
    => IF config.Passthrough THEN ForwardedVerbatim ELSE Rejected(StatusNotFound)

\* C6: a GET on the discovery path for a non-empty resource of the domain
\* that is no key of the table is forwarded verbatim when passthrough is
\* enabled, and is answered 404 without reaching the next handler when it
\* is disabled.
C6_Unconfigured ==
    ( /\ GetWithResource
      /\ isResourceForDomain(Requested, handler.domain)
      /\ Requested \notin DOMAIN config.Resources )
    => IF config.Passthrough THEN ForwardedVerbatim ELSE Rejected(StatusNotFound)

C6_Witness ==
    /\ GetWithResource
    /\ isResourceForDomain(Requested, handler.domain)
    /\ Requested \notin DOMAIN config.Resources
    /\ DOMAIN config.Resources # {}
    /\ config.Passthrough
    /\ next = "backend"
    /\ last.rw.status = StatusOK
    /\ last.forwarded = <<last.req>>

(***************************************************************************)
(* Construction.                                                           *)
(***************************************************************************)
Constructed == err # "unset"

KeysInDomain ==
    \A k \in DOMAIN config.Resources : isResourceForDomain(k, config.Domain)

SubjectsPresent ==
    \A k \in DOMAIN config.Resources : config.Resources[k].Subject # ""

RelsPresent ==
    \A k \in DOMAIN config.Resources :
        \A i \in 1..Len(config.Resources[k].Links) :
            config.Resources[k].Links[i].Rel # ""

\* C7: with a non-empty domain, construction fails with the domain-mismatch
\* error and returns no handler as soon as one key of the table does not
\* belong to the domain, even if every other entry is valid.
C7_KeyOutsideDomainRejected ==
    (Constructed /\ config.Domain # <<>> /\ ~KeysInDomain)
    => /\ handler = NoHandler
       /\ err = "resource does not match configured domain"

\* C8: with a non-empty domain and every key in the domain, construction
\* returns no handler when some descriptor is malformed: the error is the
\* missing-subject error when only subjects are missing, the missing-rel
\* error when only rels are missing, and one of the two otherwise.
C8_MalformedDescriptorRejected ==
    (Constructed /\ config.Domain # <<>> /\ KeysInDomain
        /\ (~SubjectsPresent \/ ~RelsPresent))
    => /\ handler = NoHandler
       /\ err \in {"subject is required for resource",
                   "rel is required for links in resource"}
       /\ RelsPresent => err = "subject is required for resource"
       /\ SubjectsPresent => err = "rel is required for links in resource"

\* C9: construction fails with the missing-domain error and returns no
\* handler whenever the domain is empty, whatever the table and the
\* passthrough flag; it returns a handler holding the configuration, and no
\* error, when the domain is non-empty, every key belongs to it, every
\* subject is non-empty and every rel is non-empty.
C9_DomainRequired ==
    Constructed
    => /\ config.Domain = <<>>
          => (handler = NoHandler /\ err = "domain must be specified")
       /\ (config.Domain # <<>> /\ KeysInDomain /\ SubjectsPresent /\ RelsPresent)
          => /\ err = NoError
             /\ handler = [ok |-> TRUE, next |-> next, domain |-> config.Domain,
                           resources |-> config.Resources,
                           passthrough |-> config.Passthrough]

C9_Witness ==
    /\ Constructed
    /\ config.Domain = <<>>
    /\ Cardinality(DOMAIN config.Resources) = 2
    /\ config.Passthrough
    /\ handler = NoHandler
    /\ err = "domain must be specified"

(***************************************************************************)
(* The classifier.                                                         *)
(***************************************************************************)
\* the text of s after its first "@" is exactly d
AfterFirstAtIs(s, d) ==
    \E i \in 1..Len(s) :
        /\ s[i] = "@"
        /\ \A j \in 1..(i - 1) : s[j] # "@"
        /\ SubSeq(s, i + 1, Len(s)) = d

\* C10: for a resource starting with acct: or mailto: the classifier answers
\* true exactly when the text after the scheme prefix holds an "@" and
\* everything after its first "@" equals the domain.
C10_AcctMailtoFirstAt ==
    /\ (cresult # "pending" /\ HasPrefix(cresource, acctPrefix))
       => (cresult = "true"
           <=> AfterFirstAtIs(SubSeq(cresource, Len(acctPrefix) + 1, Len(cresource)),
                              cdomain))
    /\ (cresult # "pending" /\ HasPrefix(cresource, mailtoPrefix))
       => (cresult = "true"
           <=> AfterFirstAtIs(SubSeq(cresource, Len(mailtoPrefix) + 1, Len(cresource)),
                              cdomain))

\* acct:u@u@d against domain d: the part after the first "@" is u@d
C10_Witness ==
    /\ cresource = acctPrefix \o <<"u", "@", "u", "@", "d">>
    /\ cdomain = <<"d">>
    /\ cresult = "false"

\* d occurs in s: some position of s starts a copy of d
OccursIn(d, s) ==
    \E start \in 1..(Len(s) + 1) :
        \A k \in 1..Len(d) :
            /\ start + k - 1 <= Len(s)
            /\ s[start + k - 1] = d[k]

Unrecognised(s) ==
    /\ ~HasPrefix(s, acctPrefix)
    /\ ~HasPrefix(s, httpsPrefix)
    /\ ~HasPrefix(s, mailtoPrefix)

\* C11: for a resource starting with https:// the classifier answers true
\* exactly when the domain occurs somewhere in the text after the prefix,
\* and for a resource with none of the three prefixes exactly when the
\* domain occurs somewhere in the whole resource; an occurrence that is not
\* the authority is accepted.
C11_HttpsAndOtherSubstring ==
    /\ (cresult # "pending" /\ HasPrefix(cresource, httpsPrefix))
       => (cresult = "true"
           <=> OccursIn(cdomain,
                        SubSeq(cresource, Len(httpsPrefix) + 1, Len(cresource))))
    /\ (cresult # "pending" /\ Unrecognised(cresource))
       => (cresult = "true" <=> OccursIn(cdomain, cresource))

\* https://u@u@d against domain d: the domain is not where the authority starts
C11_Witness ==
    /\ cresource = httpsPrefix \o <<"u", "@", "u", "@", "d">>
    /\ cdomain = <<"d">>
    /\ cresult = "true"

(***************************************************************************)
(* Concurrent serving.  net/http runs each request in a goroutine of its   *)
(* own on the one *WebFinger, so the calls of ServeHTTP interleave between *)
(* their reads of the shared fields: w.next (lines 75, 112), w.domain      *)
(* (line 93), w.resources (line 100) and w.passthrough (line 111).         *)
(***************************************************************************)
ConcConfigs ==
    { c \in Configs : \A k \in DOMAIN c.Resources : c.Resources[k] = DescAlice }

ConcQueries ==
    {<<>>} \cup { <<Param("resource", r)>> : r \in Keys \cup {httpsPrefix \o <<"u", "d">>} }

ConcRequests ==
    [Path : {wellKnown}, Method : {"GET"}, Query : ConcQueries]
    \cup { [Path |-> <<"/", "x">> \o wellKnown, Method |-> "GET", Query |-> <<>>],
           [Path |-> wellKnown, Method |-> "POST", Query |-> <<>>] }

Done(req, out) == [pc |-> "done", req |-> req, out |-> out]

At(pc, req) == [pc |-> pc, req |-> req]

\* what the comma-ok map read of line 100 leaves in the receiver: a read of a
\* missing key adds nothing
ReceiverAfterLookupInserting(w, resource) ==
    IF resource \in DOMAIN w.resources THEN w
    ELSE [w EXCEPT !.resources =
             (resource :> [Subject |-> "", Aliases |-> <<>>, Links |-> <<>>]) @@ @]

ReceiverAfterLookup(w, resource) == w

InitConcurrent ==
    /\ config \in ConcConfigs
    /\ next \in NextHandlers
    /\ handler = NoHandler
    /\ err = "unset"
    /\ last = NoCall
    /\ cresource = <<>>
    /\ cdomain = <<>>
    /\ cresult = "idle"
    /\ inflight = NoneInFlight

\* the server hands a request to a goroutine
Accept(g) ==
    /\ handler.ok
    /\ inflight[g].pc = "idle"
    /\ \E req \in ConcRequests : inflight' = [inflight EXCEPT ![g] = At("entry", req)]
    /\ UNCHANGED <<config, next, handler, err, last, cresource, cdomain, cresult>>

\* lines 74-90: path, method and resource parameter
CheckRequest(g) ==
    /\ inflight[g].pc = "entry"
    /\ LET req == inflight[g].req
       IN  inflight' = [inflight EXCEPT ![g] =
               IF ~IsWebFingerPath(req.Path)
               THEN Done(req, Forward(handler, NewRecorder, req))
               ELSE IF ~MethodAllowed(req.Method)
               THEN Done(req, Served(httpError(NewRecorder, "Method not allowed",
                                               StatusMethodNotAllowed)))
               ELSE IF QueryGet(req.Query, "resource") = <<>>
               THEN Done(req, Served(httpError(NewRecorder,
                                               "Resource parameter is required",
                                               StatusBadRequest)))
               ELSE At("domain", req)]
    /\ UNCHANGED <<config, next, handler, err, last, cresource, cdomain, cresult>>

\* lines 93-96
CheckDomain(g) ==
    /\ inflight[g].pc = "domain"
    /\ LET req == inflight[g].req
       IN  inflight' = [inflight EXCEPT ![g] =
               IF ~isResourceForDomain(QueryGet(req.Query, "resource"), handler.domain)
               THEN Done(req, Served(httpError(NewRecorder, "Resource not found",
                                               StatusNotFound)))
               ELSE At("lookup", req)]
    /\ UNCHANGED <<config, next, handler, err, last, cresource, cdomain, cresult>>

\* lines 99-108
Lookup(g) ==
    /\ inflight[g].pc = "lookup"
    /\ LET req == inflight[g].req
           normalizedResource == normalizeResource(QueryGet(req.Query, "resource"))
       IN  /\ \E encodeFails \in BOOLEAN :
                 inflight' = [inflight EXCEPT ![g] =
                     IF normalizedResource \in DOMAIN handler.resources
                     THEN Done(req, ServeStatic(NewRecorder,
                                                handler.resources[normalizedResource],
                                                encodeFails))
                     ELSE At("unmatched", req)]
           /\ handler' = ReceiverAfterLookup(handler, normalizedResource)
    /\ UNCHANGED <<config, next, err, last, cresource, cdomain, cresult>>

\* lines 110-117
Passthrough(g) ==
    /\ inflight[g].pc = "unmatched"
    /\ LET req == inflight[g].req
       IN  inflight' = [inflight EXCEPT ![g] =
               Done(req, Unmatched(handler, NewRecorder, req))]
    /\ UNCHANGED <<config, next, handler, err, last, cresource, cdomain, cresult>>

\* the call has returned and the response is with the caller
Finish(g) ==
    /\ inflight[g].pc = "done"
    /\ inflight' = [inflight EXCEPT ![g] = Idle]
    /\ UNCHANGED <<config, next, handler, err, last, cresource, cdomain, cresult>>

NextConcurrent ==
    \/ Construct
    \/ \E g \in Goroutines :
          \/ Accept(g)
          \/ CheckRequest(g)
          \/ CheckDomain(g)
          \/ Lookup(g)
          \/ Passthrough(g)
          \/ Finish(g)

SpecConcurrent == InitConcurrent /\ [][NextConcurrent]_vars

\* C12: once built, the handler holds the domain, table and passthrough flag
\* of its configuration in every state, whatever requests are in flight and
\* however their steps interleave; and every finished request has the
\* outcome that ServeHTTP gives for that request alone on the configuration.
C12_ConfigurationImmutable ==
    handler.ok
    => /\ handler = New(config, next).handler
       /\ \A g \in Goroutines :
             inflight[g].pc = "done"
             => inflight[g].out = ServeHTTP(New(config, next).handler, NewRecorder,
                                            inflight[g].req,
                                            inflight[g].out.encodeErr)

\* two requests for the same unconfigured resource of the domain are both
\* finished, one having been looked up while the other was in flight
C12_Witness ==
    /\ handler.ok
    /\ inflight[1].pc = "done"
    /\ inflight[2].pc = "done"
    /\ inflight[1].req = inflight[2].req
    /\ QueryGet(inflight[1].req.Query, "resource") = httpsPrefix \o <<"u", "d">>
    /\ inflight[1].out.rw.status = StatusNotFound
    /\ inflight[2].out.rw.status = StatusNotFound

\* C13: when the encoding of a matched descriptor fails, the status the
\* caller observes is 500, not 200, and the next handler is not invoked.
C13_EncodeFailureIs500 ==
    (last.called /\ last.encodeErr)
    => /\ last.rw.status = StatusInternalServerError
       /\ last.forwarded = <<>>

HandlerStatuses ==
    {StatusOK, StatusBadRequest, StatusNotFound, StatusMethodNotAllowed,
     StatusInternalServerError}

\* C14: every call ends in exactly one of two ways: the handler answers with
\* one status among 200, 400, 404, 405 and 500 and the next handler is not
\* invoked, or the next handler is invoked exactly once and the response is
\* the next handler's alone; and the next handler is invoked only for a path
\* outside the discovery prefix or, with passthrough enabled, for a GET with
\* a non-empty resource that is not a key of the table.
C14_AnswerOrForward ==
    last.called
    => /\ \/ /\ last.forwarded = <<>>
             /\ last.rw.status \in HandlerStatuses
          \/ ForwardedVerbatim
       /\ last.forwarded # <<>>
          => \/ ~OnDiscoveryPath
             \/ /\ config.Passthrough
                /\ last.req.Method = "GET"
                /\ ~ResourceMissing
                /\ Requested \notin DOMAIN config.Resources

\* a discovery request that ended with the next handler, and only the next
\* handler, having written the response
C14_Witness ==
    /\ last.called
    /\ OnDiscoveryPath
    /\ next = "teapot"
    /\ last.forwarded = <<last.req>>
    /\ last.rw.status = StatusTeapot
    /\ last.rw.body = <<>>

====
